---- MODULE Spec2Model ----
(***************************************************************************)
(* The refresh cycle of the stock dashboard script (src/app.py).           *)
(*                                                                         *)
(* One run of the script is one refresh cycle: read the sidebar inputs,    *)
(* fetch the intraday table, add SMA20/EMA20, compute the snapshot         *)
(* metrics, render tiles/chart/table, count down and ask the host for a    *)
(* re-execution.  Prices are whole numbers; every float the script         *)
(* computes from them (means, percent change) is kept as an exact          *)
(* fraction, NaN or an infinity.                                           *)
(***************************************************************************)
EXTENDS Integers, Sequences, FiniteSets, TLC

VARIABLES
    ticker_text,    \* the text widget's value, as typed
    ticker,         \* ticker_text upper-cased (line 56)
    refresh_rate,   \* the slider's value (line 57)
    pc,             \* where the script is: Fetching, Computing, Rendering,
                    \* CountingDown, or Ended (the run is over)
    df,             \* the table of the current run
    snap,           \* latest_close, prev_close, change, pct_change
    i,              \* the countdown loop's next value
    warnings,       \* st.warning boxes rendered in this run
    errors,         \* st.error banners rendered in this run
    metrics,        \* metric tiles rendered in this run
    charts,         \* charts rendered in this run
    tables,         \* data tables rendered in this run
    shown,          \* values the countdown placeholder has displayed
    sleeps,         \* seconds slept by the countdown in this run
    phases,         \* the phases this run has entered, in order
    uncaught,       \* an exception left the script and was no rerun request
    calls           \* add_indicators applications to df

vars == <<ticker_text, ticker, refresh_rate, pc, df, snap, i, warnings, errors,
          metrics, charts, tables, shown, sleeps, phases, uncaught, calls>>

---------------------------------------------------------------------------
(* Bounds of the model *)

MaxRows == 21
MaxTail == 2
MaxCalls == 2

(* Program constants *)

SMAWindow == 20
EMASpan == 20
SliderMin == 5
SliderMax == 60
SliderDefault == 15
TailRows == 5

---------------------------------------------------------------------------
(* Helpers *)

Range(s) == {s[k] : k \in DOMAIN s}

Abs(n) == IF n < 0 THEN -n ELSE n

Min(a, b) == IF a < b THEN a ELSE b

RECURSIVE GCD(_, _)
GCD(a, b) == IF b = 0 THEN a ELSE GCD(b, a % b)

RECURSIVE Sum(_)
Sum(s) == IF s = <<>> THEN 0 ELSE s[1] + Sum(Tail(s))

(* A float64: a finite value num/den in lowest terms, NaN, +inf or -inf. *)
Frac(n, d) ==
    LET g == GCD(Abs(n), d)
    IN  [cls |-> "finite", num |-> n \div g, den |-> d \div g]

Float(n) == Frac(n, 1)
NaN == [cls |-> "nan", num |-> 0, den |-> 1]
PosInf == [cls |-> "inf", num |-> 0, den |-> 1]
NegInf == [cls |-> "-inf", num |-> 0, den |-> 1]

FSub(a, b) == Frac(a.num * b.den - b.num * a.den, a.den * b.den)

FMulInt(a, n) ==
    IF a.cls = "finite" THEN Frac(a.num * n, a.den) ELSE a

(* numpy float64 division: x/0 is nan or an infinity, never an exception. *)
FDiv(a, b) ==
    IF b.num = 0
    THEN IF a.num = 0 THEN NaN ELSE IF a.num > 0 THEN PosInf ELSE NegInf
    ELSE IF b.num > 0 THEN Frac(a.num * b.den, a.den * b.num)
         ELSE Frac(-(a.num * b.den), a.den * (-b.num))

RoundHalfEven(n, d) ==
    LET q == n \div d
        r == n % d
    IN  IF 2 * r < d THEN q
        ELSE IF 2 * r > d THEN q + 1
        ELSE IF q % 2 = 0 THEN q ELSE q + 1

(* format(x, ".2f"): the value in hundredths, or nan/inf/-inf. *)
Fmt2(v) ==
    IF v.cls = "finite"
    THEN [cls |-> "finite", hundredths |-> RoundHalfEven(100 * v.num, v.den)]
    ELSE [cls |-> v.cls, hundredths |-> 0]

---------------------------------------------------------------------------
(* Tables *)

OHLCV == <<"Open", "High", "Low", "Close", "Volume">>

NoFrame == [index |-> <<>>, columns |-> <<>>, data |-> [c \in {} |-> <<>>]]

Frame(rows) ==
    [index   |-> [k \in 1..Len(rows) |-> k],
     columns |-> OHLCV,
     data    |-> [c \in Range(OHLCV) |-> [k \in 1..Len(rows) |-> rows[k][c]]]]

Rows(d) == Len(d.index)

(* Faulty variant: looks at the columns only, so a table of zero rows that *)
(* still has its columns is taken for data.                                *)
IsEmpty_ColumnsOnly(d) == Len(d.columns) = 0

IsEmpty(d) == Len(d.index) = 0 \/ Len(d.columns) = 0

(* d[name] = values: replaces the column, or appends it on the right. *)
SetColumn(d, name, values) ==
    [index   |-> d.index,
     columns |-> IF name \in Range(d.columns) THEN d.columns
                 ELSE Append(d.columns, name),
     data    |-> [c \in (DOMAIN d.data) \cup {name} |->
                     IF c = name THEN values ELSE d.data[c]]]

(* s.iloc[k] for a negative k is defined when the series has -k rows. *)
IlocInBounds(s, k) == Len(s) >= -k
Iloc(s, k) == s[Len(s) + 1 + k]

(* df.tail(): the last five rows, every column. *)
TailOf(s, n) == SubSeq(s, Len(s) - Min(n, Len(s)) + 1, Len(s))

tail(d) ==
    [index   |-> TailOf(d.index, TailRows),
     columns |-> d.columns,
     data    |-> [c \in DOMAIN d.data |-> TailOf(d.data[c], TailRows)]]

---------------------------------------------------------------------------
(* The market-data provider *)

RowA == [Open |-> 100, High |-> 105, Low |-> 99, Close |-> 102, Volume |-> 7]
RowB == [Open |-> 102, High |-> 103, Low |-> 100, Close |-> 101, Volume |-> 9]
Candles == {RowA, RowB}

(* n rows: the first candle repeated, then up to MaxTail candles chosen    *)
(* freely.                                                                 *)
History ==
    UNION { UNION { { [k \in 1..(n - t) |-> RowA] \o tl :
                        tl \in [1..t -> Candles] } :
                    t \in 0..Min(n, MaxTail) } :
            n \in 0..MaxRows }

ProviderErrors ==
    { [class |-> "ConnectionError", text |-> "network failure"],
      [class |-> "YFRateLimitError", text |-> "rate limited"],
      [class |-> "ValueError", text |-> "malformed symbol"] }

get_stock_data(tk) ==
    { [raised |-> FALSE, df |-> Frame(rows),
       exc |-> [class |-> "", text |-> ""]] : rows \in History }
    \cup
    { [raised |-> TRUE, df |-> NoFrame, exc |-> e] : e \in ProviderErrors }

---------------------------------------------------------------------------
(* Indicators *)

(* Faulty variant: rolling(window, min_periods=1), a mean over the rows    *)
(* seen so far while the window is not yet full.                           *)
rolling_mean_MinPeriods1(s, window) ==
    [k \in 1..Len(s) |->
        LET lo == IF k < window THEN 1 ELSE k - window + 1
        IN  Frac(Sum(SubSeq(s, lo, k)), k - lo + 1)]

rolling_mean(s, window) ==
    [k \in 1..Len(s) |->
        IF k < window THEN NaN
        ELSE Frac(Sum(SubSeq(s, k - window + 1, k)), window)]

RECURSIVE ewm_prefix(_, _, _)
ewm_prefix(s, span, k) ==
    IF k = 0 THEN <<>>
    ELSE IF k = 1 THEN <<Float(s[1])>>
    ELSE LET before == ewm_prefix(s, span, k - 1)
             p == before[k - 1]
         IN  Append(before,
                    Frac(2 * s[k] * p.den + (span - 1) * p.num,
                         (span + 1) * p.den))

ewm_mean(s, span) == ewm_prefix(s, span, Len(s))

(* Faulty variant: smooths the EMA20 column again when the table already  *)
(* has one, instead of starting from Close.                                *)
RECURSIVE ewm_prefix_float(_, _, _)
ewm_prefix_float(s, span, k) ==
    IF k = 0 THEN <<>>
    ELSE IF k = 1 THEN <<s[1]>>
    ELSE LET before == ewm_prefix_float(s, span, k - 1)
             p == before[k - 1]
         IN  Append(before,
                    Frac(2 * s[k].num * p.den + (span - 1) * p.num * s[k].den,
                         (span + 1) * p.den * s[k].den))

add_indicators_Compounding(d) ==
    LET close == d.data["Close"]
        source == IF "EMA20" \in Range(d.columns) THEN d.data["EMA20"]
                  ELSE [k \in 1..Len(close) |-> Float(close[k])]
    IN  SetColumn(SetColumn(d, "SMA20", rolling_mean(close, SMAWindow)),
                  "EMA20", ewm_prefix_float(source, EMASpan, Len(source)))

add_indicators(d) ==
    SetColumn(SetColumn(d, "SMA20", rolling_mean(d.data["Close"], SMAWindow)),
              "EMA20", ewm_mean(d.data["Close"], EMASpan))

---------------------------------------------------------------------------
(* Chart *)

Candlestick(d) ==
    [type |-> "candlestick", name |-> "Price", x |-> d.index,
     open |-> d.data["Open"], high |-> d.data["High"],
     low |-> d.data["Low"], close |-> d.data["Close"]]

Scatter(d, column, colour, label) ==
    [type |-> "scatter", name |-> label, x |-> d.index,
     y |-> d.data[column], color |-> colour]

AllUndefined(col) == \A k \in DOMAIN col : col[k] = NaN

(* Faulty variant: leaves out an overlay whose column holds no value.      *)
plot_candlestick_DropUndefined(d, tk) ==
    [title  |-> tk \o " - Real-Time Candlestick Chart",
     traces |-> <<Candlestick(d)>>
                \o (IF "SMA20" \in Range(d.columns)
                       /\ ~AllUndefined(d.data["SMA20"])
                    THEN <<Scatter(d, "SMA20", "orange", "SMA 20")>> ELSE <<>>)
                \o (IF "EMA20" \in Range(d.columns)
                       /\ ~AllUndefined(d.data["EMA20"])
                    THEN <<Scatter(d, "EMA20", "blue", "EMA 20")>> ELSE <<>>)]

plot_candlestick(d, tk) ==
    [title  |-> tk \o " - Real-Time Candlestick Chart",
     traces |-> <<Candlestick(d)>>
                \o (IF "SMA20" \in Range(d.columns)
                    THEN <<Scatter(d, "SMA20", "orange", "SMA 20")>> ELSE <<>>)
                \o (IF "EMA20" \in Range(d.columns)
                    THEN <<Scatter(d, "EMA20", "blue", "EMA 20")>> ELSE <<>>)]

---------------------------------------------------------------------------
(* Snapshot metrics *)

NoSnap == [latest_close |-> NaN, prev_close |-> NaN,
           change |-> NaN, pct_change |-> NaN]

Snapshot(d) ==
    LET latest_close == Float(Iloc(d.data["Close"], -1))
        prev_close == Float(Iloc(d.data["Close"], -2))
        change == FSub(latest_close, prev_close)
        pct_change == FMulInt(FDiv(change, prev_close), 100)
    IN  [latest_close |-> latest_close, prev_close |-> prev_close,
         change |-> change, pct_change |-> pct_change]

MaxOf(col) == CHOOSE m \in Range(col) : \A v \in Range(col) : v <= m
MinOf(col) == CHOOSE m \in Range(col) : \A v \in Range(col) : m <= v

(* Faulty variant: Day High / Day Low over the whole fetched window.       *)
MetricTiles_WindowMax(d, s) ==
    << [label |-> "Latest Price", value |-> Fmt2(s.latest_close),
        delta |-> <<Fmt2(s.change), Fmt2(s.pct_change)>>],
       [label |-> "Day High", value |-> Fmt2(Float(MaxOf(d.data["High"]))),
        delta |-> <<>>],
       [label |-> "Day Low", value |-> Fmt2(Float(MinOf(d.data["Low"]))),
        delta |-> <<>>] >>

MetricTiles(d, s) ==
    << [label |-> "Latest Price", value |-> Fmt2(s.latest_close),
        delta |-> <<Fmt2(s.change), Fmt2(s.pct_change)>>],
       [label |-> "Day High", value |-> Fmt2(Float(Iloc(d.data["High"], -1))),
        delta |-> <<>>],
       [label |-> "Day Low", value |-> Fmt2(Float(Iloc(d.data["Low"], -1))),
        delta |-> <<>>] >>

---------------------------------------------------------------------------
(* The script *)

TickerInputs == {"AAPL", "tsla"}

Upper(s) == IF s = "tsla" THEN "TSLA" ELSE s

(* Lines 52-60: a run starts with the widgets' values and an empty page. *)
StartCycle(text, rate) ==
    /\ ticker_text' = text
    /\ ticker' = Upper(text)
    /\ refresh_rate' = rate
    /\ pc' = "Fetching"
    /\ df' = NoFrame
    /\ snap' = NoSnap
    /\ i' = 0
    /\ warnings' = <<>>
    /\ errors' = <<>>
    /\ metrics' = <<>>
    /\ charts' = <<>>
    /\ tables' = <<>>
    /\ shown' = <<>>
    /\ sleeps' = 0
    /\ phases' = <<"Fetching">>
    /\ uncaught' = FALSE
    /\ calls' = 0

Init ==
    /\ ticker_text = "AAPL"
    /\ ticker = Upper("AAPL")
    /\ refresh_rate = SliderDefault
    /\ pc = "Fetching"
    /\ df = NoFrame
    /\ snap = NoSnap
    /\ i = 0
    /\ warnings = <<>>
    /\ errors = <<>>
    /\ metrics = <<>>
    /\ charts = <<>>
    /\ tables = <<>>
    /\ shown = <<>>
    /\ sleeps = 0
    /\ phases = <<"Fetching">>
    /\ uncaught = FALSE
    /\ calls = 0

(* The classes `except Exception` catches.  The host's rerun request is a  *)
(* BaseException and is not among them.                                    *)
ExceptionClasses ==
    {"ConnectionError", "YFRateLimitError", "ValueError", "IndexError"}

(* Faulty variant: `except ValueError`.                                    *)
Catches_ValueErrorOnly(e) == e.class = "ValueError"

Catches(e) == e.class \in ExceptionClasses

IndexError ==
    [class |-> "IndexError",
     text |-> "single positional indexer is out-of-bounds"]

RerunException == [class |-> "RerunException", text |-> ""]

(* Lines 95-96: the banner, and the run is over. *)
ExceptBranch(e) ==
    /\ errors' = Append(errors, "Error: " \o e.text)
    /\ pc' = "Ended"
    /\ phases' = Append(phases, "Error")
    /\ uncaught' = uncaught

(* An exception raised inside the try block, with the frame as it is then. *)
Raise(e, d) ==
    IF Catches(e)
    THEN /\ ExceptBranch(e)
         /\ df' = d
         /\ UNCHANGED <<ticker_text, ticker, refresh_rate, snap, i, warnings,
                        metrics, charts, tables, shown, sleeps>>
    ELSE IF e = RerunException
         THEN StartCycle(ticker_text, refresh_rate)
         ELSE /\ uncaught' = TRUE
              /\ pc' = "Ended"
              /\ df' = d
              /\ UNCHANGED <<ticker_text, ticker, refresh_rate, snap, i,
                             warnings, errors, metrics, charts, tables, shown,
                             sleeps, phases>>

(* Faulty variant: the countdown placed after the if/else, so that it     *)
(* also runs after the warning.                                            *)
OnEmpty_ThenCountdown(d) ==
    /\ df' = d
    /\ warnings' = Append(warnings,
                     "No data available. Try a different ticker or interval.")
    /\ i' = refresh_rate
    /\ pc' = "CountingDown"
    /\ phases' = Append(phases, "Empty")
    /\ UNCHANGED <<ticker_text, ticker, refresh_rate, snap, errors, metrics,
                   charts, tables, shown, sleeps, uncaught>>

(* Lines 65-66: the warning; nothing follows it in the script. *)
OnEmpty(d) ==
    /\ df' = d
    /\ warnings' = Append(warnings,
                     "No data available. Try a different ticker or interval.")
    /\ pc' = "Ended"
    /\ phases' = Append(phases, "Empty")
    /\ UNCHANGED <<ticker_text, ticker, refresh_rate, snap, i, errors, metrics,
                   charts, tables, shown, sleeps, uncaught>>

(* Lines 64-67 *)
Fetching ==
    /\ pc = "Fetching"
    /\ \E res \in get_stock_data(ticker) :
          IF res.raised
          THEN Raise(res.exc, df) /\ calls' = calls
          ELSE IF IsEmpty(res.df)
          THEN OnEmpty(res.df) /\ calls' = calls
          ELSE /\ df' = res.df
               /\ pc' = "Computing"
               /\ phases' = Append(phases, "Computing")
               /\ UNCHANGED <<ticker_text, ticker, refresh_rate, snap, i,
                              warnings, errors, metrics, charts, tables, shown,
                              sleeps, uncaught, calls>>

(* Lines 68-74 *)
Computing ==
    /\ pc = "Computing"
    /\ LET d == add_indicators(df)
       IN  /\ calls' = calls + 1
           /\ IF ~IlocInBounds(d.data["Close"], -2)
              THEN Raise(IndexError, d)
              ELSE /\ df' = d
                   /\ snap' = Snapshot(d)
                   /\ pc' = "Rendering"
                   /\ phases' = Append(phases, "Rendering")
                   /\ UNCHANGED <<ticker_text, ticker, refresh_rate, i,
                                  warnings, errors, metrics, charts, tables,
                                  shown, sleeps, uncaught>>

(* Lines 76-86 *)
Rendering ==
    /\ pc = "Rendering"
    /\ metrics' = metrics \o MetricTiles(df, snap)
    /\ charts' = Append(charts, plot_candlestick(df, ticker))
    /\ tables' = Append(tables, tail(df))
    /\ i' = refresh_rate
    /\ pc' = "CountingDown"
    /\ phases' = Append(phases, "CountingDown")
    /\ UNCHANGED <<ticker_text, ticker, refresh_rate, df, snap, warnings,
                   errors, shown, sleeps, uncaught, calls>>

(* Faulty variant: range(refresh_rate, -1, -1).                            *)
Tick_ThroughZero ==
    /\ pc = "CountingDown"
    /\ i >= 0
    /\ shown' = Append(shown, i)
    /\ sleeps' = sleeps + 1
    /\ i' = i - 1
    /\ UNCHANGED <<ticker_text, ticker, refresh_rate, pc, df, snap, warnings,
                   errors, metrics, charts, tables, phases, uncaught, calls>>

(* Lines 89-91: one pass of the loop body. *)
Tick ==
    /\ pc = "CountingDown"
    /\ i > 0
    /\ shown' = Append(shown, i)
    /\ sleeps' = sleeps + 1
    /\ i' = i - 1
    /\ UNCHANGED <<ticker_text, ticker, refresh_rate, pc, df, snap, warnings,
                   errors, metrics, charts, tables, phases, uncaught, calls>>

(* Line 93, reached when range(refresh_rate, 0, -1) is exhausted.  The     *)
(* rerun request travels as an exception that `except Exception` does not  *)
(* catch; the host answers it by running the script again with the same    *)
(* widget values.                                                          *)
Rerun ==
    /\ pc = "CountingDown"
    /\ i = 0
    /\ Raise(RerunException, df)

(* Lines 56-57: a widget's value changes and the host runs the script.     *)
(* The script reads its inputs only at the start of a run and blocks in    *)
(* the fetch and in the countdown's sleep, so a change takes effect here   *)
(* once the run is over.                                                   *)
UserInput ==
    /\ pc = "Ended"
    /\ \E text \in TickerInputs, rate \in SliderMin..SliderMax :
          /\ text # ticker_text \/ rate # refresh_rate
          /\ StartCycle(text, rate)

Next == Fetching \/ Computing \/ Rendering \/ Tick \/ Rerun \/ UserInput

Spec == Init /\ [][Next]_vars

---------------------------------------------------------------------------
(* add_indicators applied repeatedly to a fetched table *)

IndInit ==
    /\ ticker_text = "AAPL"
    /\ ticker = Upper("AAPL")
    /\ refresh_rate = SliderDefault
    /\ pc = "Computing"
    /\ df \in {Frame(rows) : rows \in History}
    /\ snap = NoSnap
    /\ i = 0
    /\ warnings = <<>>
    /\ errors = <<>>
    /\ metrics = <<>>
    /\ charts = <<>>
    /\ tables = <<>>
    /\ shown = <<>>
    /\ sleeps = 0
    /\ phases = <<"Fetching", "Computing">>
    /\ uncaught = FALSE
    /\ calls = 0

ApplyIndicators ==
    /\ calls < MaxCalls
    /\ df' = add_indicators(df)
    /\ calls' = calls + 1
    /\ UNCHANGED <<ticker_text, ticker, refresh_rate, pc, snap, i, warnings,
                   errors, metrics, charts, tables, shown, sleeps, phases,
                   uncaught>>

IndNext == ApplyIndicators

SpecInd == IndInit /\ [][IndNext]_vars

---------------------------------------------------------------------------
(* Properties *)

Last(s) == s[Len(s)]

HasColumn(d, c) == c \in Range(d.columns)

FullCycle == <<"Fetching", "Computing", "Rendering", "CountingDown">>

(* C1: errors and warnings never halt the refresh loop: whatever a run has *)
(* shown, the script always has a step of its own left (the countdown,     *)
(* then the re-execution), so the next run needs no external trigger.      *)
C1_LoopNeverHalts ==
    ENABLED (Fetching \/ Computing \/ Rendering \/ Tick \/ Rerun)

(* C2: when the fetch returns a table of zero rows the run shows exactly   *)
(* one warning and skips the presentation: add_indicators is not called,   *)
(* and no metric tile, chart or table is rendered.                         *)
C2_EmptySkipsPresentation ==
    (df.columns # <<>> /\ Rows(df) = 0) =>
        /\ pc = "Ended"
        /\ Len(warnings) = 1
        /\ errors = <<>>
        /\ calls = 0
        /\ ~HasColumn(df, "SMA20") /\ ~HasColumn(df, "EMA20")
        /\ metrics = <<>>
        /\ charts = <<>>
        /\ tables = <<>>

C2_Witness ==
    /\ pc = "Ended"
    /\ df.columns = OHLCV
    /\ Rows(df) = 0
    /\ Len(warnings) = 1

(* C3: for every refresh rate r in 5..60 the countdown displays r, r-1,    *)
(* ..., 1 in this order, each once and each followed by a one-second       *)
(* sleep; 0 is never displayed, and the re-execution is requested only     *)
(* when the whole sequence down to 1 has been displayed.                   *)
C3_Countdown ==
    /\ refresh_rate \in SliderMin..SliderMax
    /\ shown = [k \in 1..Len(shown) |-> refresh_rate - k + 1]
    /\ Len(shown) <= refresh_rate
    /\ sleeps = Len(shown)
    /\ (shown # <<>>) => pc = "CountingDown"
    /\ (pc = "CountingDown" /\ Len(shown) < refresh_rate) => ENABLED Tick
    /\ (ENABLED Rerun) =>
          shown = [k \in 1..refresh_rate |-> refresh_rate - k + 1]

C3_Witness ==
    /\ pc = "CountingDown"
    /\ refresh_rate = SliderMin
    /\ shown = <<5, 4, 3, 2, 1>>
    /\ sleeps = 5
    /\ ENABLED Rerun

(* C4: a fetched table of exactly one row does not make the run fail: no   *)
(* error is raised by the previous-close / change / percent-change         *)
(* computation and the run goes on to the chart, table and countdown.      *)
C4_OneRowDoesNotCrash ==
    (Rows(df) = 1) => (errors = <<>> /\ pc # "Ended")

(* C5 as stated: the chart has one candlestick trace plus one overlay per  *)
(* indicator column that is present and not entirely undefined, so under   *)
(* 20 rows the SMA20 overlay is omitted and the chart has 2 traces.        *)
C5_UndefinedOverlayOmitted ==
    \A n \in DOMAIN charts :
        Len(charts[n].traces) =
            1 + Cardinality({c \in {"SMA20", "EMA20"} :
                    HasColumn(df, c) /\ ~AllUndefined(df.data[c])})

(* C5 amended: the chart has one candlestick trace plus one overlay per    *)
(* indicator column present in the table, whether or not the column holds  *)
(* a value; every chart a run renders has 3 traces, also under 20 rows,    *)
(* where the SMA20 overlay is there and undefined in every row.            *)
C5_OverlayPerColumn ==
    /\ (df.columns # <<>>) =>
          Len(plot_candlestick(df, ticker).traces) =
              1 + Cardinality({c \in {"SMA20", "EMA20"} : HasColumn(df, c)})
    /\ \A n \in DOMAIN charts :
          /\ Len(charts[n].traces) = 3
          /\ charts[n].traces[1].type = "candlestick"
          /\ charts[n].traces[2].name = "SMA 20"
          /\ charts[n].traces[2].y = df.data["SMA20"]
          /\ charts[n].traces[3].name = "EMA 20"
          /\ charts[n].traces[3].y = df.data["EMA20"]
          /\ (Rows(df) < SMAWindow) => AllUndefined(charts[n].traces[2].y)

C5_Witness ==
    /\ Len(charts) = 1
    /\ Rows(df) < SMAWindow
    /\ Len(charts[1].traces) = 3
    /\ AllUndefined(charts[1].traces[2].y)

(* C6: an exception raised by the fetch is caught at the top level and     *)
(* shows as exactly one error banner with the raw error text; it does not  *)
(* leave the script, and the run renders no metric tile, chart, table or   *)
(* countdown value.                                                        *)
C6_FetchErrorBanner ==
    /\ ~uncaught
    /\ (pc = "Ended" /\ df = NoFrame) =>
          /\ \E e \in ProviderErrors : errors = <<"Error: " \o e.text>>
          /\ warnings = <<>>
          /\ metrics = <<>>
          /\ charts = <<>>
          /\ tables = <<>>
          /\ shown = <<>>

C6_Witness ==
    /\ pc = "Ended"
    /\ df = NoFrame
    /\ errors = <<"Error: network failure">>
    /\ ~uncaught

(* C7: a run whose fetch returns an empty table ends after the warning: it *)
(* enters neither Computing, Rendering nor CountingDown, displays no       *)
(* countdown value and does not request the re-execution; the next run     *)
(* starts only when the ticker or the refresh rate changes.  Every other   *)
(* run that does not fail goes through Fetching, Computing, Rendering and  *)
(* CountingDown in this order before the script starts the next run.       *)
C7_EmptyIsTerminal ==
    /\ [](/\ (Last(phases) = "Empty") =>
                /\ phases = <<"Fetching", "Empty">>
                /\ pc = "Ended"
                /\ shown = <<>>
                /\ ~ENABLED (Fetching \/ Computing \/ Rendering \/ Tick \/ Rerun)
          /\ (pc = "Ended") => Last(phases) \in {"Empty", "Error"}
          /\ (pc # "Ended") =>
                /\ phases = SubSeq(FullCycle, 1, Len(phases))
                /\ pc = Last(phases))
    /\ [][/\ (pc = "Ended" /\ Last(phases) = "Empty") =>
                /\ pc' = "Fetching"
                /\ ticker_text' # ticker_text \/ refresh_rate' # refresh_rate
          /\ (pc # "Ended" /\ pc' = "Fetching") =>
                /\ phases = FullCycle
                /\ ticker_text' = ticker_text
                /\ refresh_rate' = refresh_rate]_vars

C7_Witness ==
    /\ phases = <<"Fetching", "Empty">>
    /\ pc = "Ended"
    /\ warnings # <<>>
    /\ shown = <<>>

(* C8: for every table of at least 2 rows the snapshot metrics come from   *)
(* the last two rows: latest close and previous close are the Close of the *)
(* last and of the second-to-last row, change is their difference, and the *)
(* Day High and Day Low tiles show the last row's High and Low, not the    *)
(* extremes of the fetched window.                                         *)
C8_MetricsFromLastTwoRows ==
    /\ (Rows(df) >= 2 /\ calls = 1) => pc \in {"Rendering", "CountingDown"}
    /\ (pc \in {"Rendering", "CountingDown"}) =>
          LET n == Rows(df)
              close == df.data["Close"]
          IN  /\ n >= 2
              /\ snap.latest_close = [cls |-> "finite", num |-> close[n], den |-> 1]
              /\ snap.prev_close = [cls |-> "finite", num |-> close[n - 1], den |-> 1]
              /\ snap.change =
                    [cls |-> "finite", num |-> close[n] - close[n - 1], den |-> 1]
    /\ (pc = "CountingDown") =>
          LET n == Rows(df)
          IN  /\ Len(metrics) = 3
              /\ metrics[1].value.hundredths = 100 * df.data["Close"][n]
              /\ metrics[1].delta[1].hundredths =
                    100 * (df.data["Close"][n] - df.data["Close"][n - 1])
              /\ metrics[2].label = "Day High"
              /\ metrics[2].value.hundredths = 100 * df.data["High"][n]
              /\ metrics[3].label = "Day Low"
              /\ metrics[3].value.hundredths = 100 * df.data["Low"][n]

C8_Witness ==
    /\ pc = "CountingDown"
    /\ Len(metrics) = 3
    /\ metrics[2].value.hundredths = 10300
    /\ \E k \in 1..Rows(df) : df.data["High"][k] = 105
    /\ metrics[3].value.hundredths = 10000
    /\ \E k \in 1..Rows(df) : df.data["Low"][k] = 99
    /\ snap.change = [cls |-> "finite", num |-> -1, den |-> 1]

(* C9: add_indicators does not fail on a table shorter than the window:    *)
(* for n >= 1 rows, SMA20 is undefined in each of the first 19 rows and is *)
(* the arithmetic mean of the 20 Close values ending at the row in every   *)
(* later row, so under 20 rows the whole column is undefined; EMA20 is     *)
(* defined in every row and equals Close in the first.                     *)
C9_IndicatorValues ==
    /\ (calls >= 1) => HasColumn(df, "SMA20") /\ HasColumn(df, "EMA20")
    /\ HasColumn(df, "SMA20") =>
          LET n == Rows(df)
              close == df.data["Close"]
              sma == df.data["SMA20"]
              ema == df.data["EMA20"]
          IN  /\ n >= 1
              /\ Len(sma) = n /\ Len(ema) = n
              /\ \A k \in 1..n :
                    /\ (k < 20) => sma[k].cls = "nan"
                    /\ (k >= 20) =>
                          /\ sma[k].cls = "finite"
                          /\ 20 * sma[k].num =
                                sma[k].den * Sum([j \in 1..20 |-> close[k - 20 + j]])
                    /\ ema[k].cls = "finite"
              /\ ema[1].num = close[1] /\ ema[1].den = 1
              /\ (n < 20) => \A k \in 1..n : sma[k].cls = "nan"

C9_Witness ==
    /\ HasColumn(df, "SMA20")
    /\ Rows(df) = 21
    /\ df.data["SMA20"][19].cls = "nan"
    /\ df.data["SMA20"][20] = [cls |-> "finite", num |-> 102, den |-> 1]
    /\ df.data["SMA20"][21] = [cls |-> "finite", num |-> 2039, den |-> 20]

(* C10: add_indicators is idempotent: a second application leaves SMA20    *)
(* and EMA20 as the first made them, both being computed from Close; and   *)
(* no application changes the timestamps, the Open/High/Low/Close/Volume   *)
(* values, the number of rows or their order.                              *)
C10_Idempotent ==
    [][ /\ df'.index = df.index
        /\ \A c \in Range(OHLCV) : df'.data[c] = df.data[c]
        /\ SubSeq(df'.columns, 1, Len(OHLCV)) = OHLCV
        /\ HasColumn(df', "SMA20") /\ HasColumn(df', "EMA20")
        /\ (calls >= 1) =>
              /\ df'.data["SMA20"] = df.data["SMA20"]
              /\ df'.data["EMA20"] = df.data["EMA20"]
              /\ df' = df ]_vars

C10_Witness ==
    /\ calls = 2
    /\ Rows(df) = 21
    /\ df.data["EMA20"][21] # df.data["EMA20"][20]
    /\ df.data["SMA20"][21].cls = "finite"

====
